---- MODULE Spec2Model ----
(***************************************************************************)
(* The per-node Ben-Or consensus state machine of src/nodes/node.ts: the   *)
(* NodeState record, the round-indexed inbox, the consensusLoop engine     *)
(* with its suspension points, sendToAll, and the HTTP control surface.    *)
(*                                                                         *)
(* Encoding of the TypeScript values:                                      *)
(*   state.x       0, 1, or Null (null)                                    *)
(*   state.k       a positive integer, or Null (null)                      *)
(*   state.decided "true", "false" or "null"                               *)
(*   inbox keys    the strings "0", "1", "?" that Value.toString() yields  *)
(***************************************************************************)
EXTENDS Integers, FiniteSets, Sequences, Bags, TLC

\* ---------------------------------------------------------------- bounds
\* Number of nodes in the cohort (parameter N of node()).
N == 3
\* Largest declared fault count F drawn in Init.
MaxF == 2
\* Rounds the engine may begin (state.k is unbounded in the code).
MaxRound == 3
\* /start requests the cohort may accept in a run of Spec.
MaxStarts == 2
\* Nodes that may be stopped in a run of Spec.
MaxStops == 1
\* Client POSTs to /message in a run of SpecIngress.
MaxPosts == 1
\* /start requests the cohort may accept in a run of SpecIngress.
MaxIngressStarts == 1
\* Nodes that may be started in a run of SpecLossy.
MaxLossyStarts == 2
\* Fetches that may be rejected in a run of SpecLossy.
MaxDrops == 2

\* null of NodeState.x and NodeState.k
Null == -1

Nodes == 0 .. (N - 1)
MsgTypes == {"R", "P"}
Keys == {"0", "1", "?"}

VARIABLES
    F,                 \* declared maximum number of faulty nodes
    initialValue,      \* initialValue parameter of each node
    isFaulty,          \* isFaulty parameter of each node
    state,             \* NodeState of each node
    inbox,             \* inbox[n][type] : round -> tally
    consensusRunning,  \* the armed flag of each node
    timers,            \* pending setTimeout(consensusLoop, 50) callbacks
    loops,             \* consensusLoop invocations suspended at an await
    networkReady,      \* what nodesAreReady() returns
    sent,              \* fetches issued by each node: bag of <<type, round, val, peer>>
    starts,            \* /start requests accepted by each node
    posted,            \* POSTs to /message made by clients other than the peers
    dropped            \* fetches that were rejected (the catch of sendToAll)

vars == <<F, initialValue, isFaulty, state, inbox, consensusRunning, timers,
          loops, networkReady, sent, starts, posted, dropped>>

config == <<F, initialValue, isFaulty>>

\* ------------------------------------------------------- pure functions
\* Value.toString() as used for the inbox keys.
ToStr(v) == IF v = 0 THEN "0" ELSE IF v = 1 THEN "1" ELSE "?"

\* JavaScript truthiness of state.decided.
Truthy(d) == d = "true"

toleranceThreshold == (N - 1) \div 2

exceedingFaultLimit == F > toleranceThreshold

\* The same two constants as src/nodes/node.ts computes them.
toleranceThresholdNodeTs == (N - 1) \div 3

exceedingFaultLimitNodeTs == F > toleranceThresholdNodeTs

ZeroTally == [key \in Keys |-> 0]

\* prepareInbox(round) that installs fresh tallies unconditionally.
prepareInbox_Resets(box, round) ==
    [t \in MsgTypes |->
        [r \in (DOMAIN box[t]) \cup {round} |->
            IF r = round THEN ZeroTally ELSE box[t][r]]]

\* prepareInbox(round) on the inbox of one node.
prepareInbox(box, round) ==
    [t \in MsgTypes |->
        IF round \in DOMAIN box[t]
        THEN box[t]
        ELSE [r \in (DOMAIN box[t]) \cup {round} |->
                 IF r = round THEN ZeroTally ELSE box[t][r]]]

\* inbox[type][round][key]++ ; the round must exist.
increment(box, type, round, key) ==
    [box EXCEPT ![type][round][key] = @ + 1]

\* (inbox[type][round]?.[key] || 0)
count(box, type, round, key) ==
    IF round \in DOMAIN box[type] THEN box[type][round][key] ELSE 0

\* A transport that delivers every message twice.
receive_Twice(n, box, type, round, key) ==
    IF state[n].killed \/ isFaulty[n]
    THEN box
    ELSE increment(increment(prepareInbox(box, round), type, round, key),
                   type, round, key)

\* The /message handler without its test of state.killed.
receive_IgnoresKilled(n, box, type, round, key) ==
    IF isFaulty[n]
    THEN box
    ELSE increment(prepareInbox(box, round), type, round, key)

\* The /message handler's effect on the receiving node's inbox.
receive(n, box, type, round, key) ==
    IF state[n].killed \/ isFaulty[n]
    THEN box
    ELSE increment(prepareInbox(box, round), type, round, key)

\* ---- the POST /message handler on a request body
\* A body is a record over a subset of PayloadFields; an absent field reads
\* as undefined.
PayloadFields == {"type", "round", "val"}

\* The check of lines 122-124: 400 unless type is truthy and round and val
\* are present.
invalidFormat(msg) ==
    \/ "type" \notin DOMAIN msg
    \/ "round" \notin DOMAIN msg
    \/ "val" \notin DOMAIN msg
    \/ msg.type = ""

\* inbox[type][round][key]++ for any key: a key the tally lacks reads as
\* undefined, and undefined++ stores NaN.
incrementAny(box, type, round, key) ==
    IF key \in Keys
    THEN increment(box, type, round, key)
    ELSE [box EXCEPT ![type][round] =
             [k2 \in (DOMAIN box[type][round]) \cup {key} |->
                 IF k2 = key THEN "NaN" ELSE box[type][round][k2]]]

\* The inbox of node n after the handler has run on body msg. With a type
\* other than "R" and "P", inbox[msg.type] is undefined and line 127 throws
\* after prepareInbox has run.
messageEffect(n, box, msg) ==
    IF state[n].killed \/ isFaulty[n] THEN box
    ELSE IF invalidFormat(msg) THEN box
    ELSE IF msg.type \notin MsgTypes THEN prepareInbox(box, msg.round)
    ELSE incrementAny(prepareInbox(box, msg.round), msg.type, msg.round, msg.val)

\* The response of the handler; an exception thrown in a handler is
\* answered 500 by express.
messageResp(n, msg) ==
    IF state[n].killed \/ isFaulty[n] THEN [code |-> 200, body |-> ""]
    ELSE IF invalidFormat(msg) THEN [code |-> 400, body |-> "Invalid message format"]
    ELSE IF msg.type \notin MsgTypes THEN [code |-> 500, body |-> "TypeError"]
    ELSE [code |-> 200, body |-> "Message received"]

\* The confirm value with a threshold of at least floor(N/2).
confirmVal_AtLeastHalf(box, round) ==
    IF box["R"][round]["0"] >= N \div 2 THEN "0"
    ELSE IF box["R"][round]["1"] >= N \div 2 THEN "1"
    ELSE "?"

\* The confirm value computed from the Phase-R tallies.
confirmVal(box, round) ==
    IF box["R"][round]["0"] > N \div 2 THEN "0"
    ELSE IF box["R"][round]["1"] > N \div 2 THEN "1"
    ELSE "?"

\* The for loop of sendToAll without its test of state.killed.
nextPeer_IgnoresKilled(n, i, killed) ==
    IF \E j \in Nodes : j >= i /\ j # n
    THEN CHOOSE j \in Nodes : j >= i /\ j # n /\
             \A j2 \in Nodes : (j2 >= i /\ j2 # n) => j <= j2
    ELSE N

\* First peer index >= i that sendToAll's for loop sends to, or N if none.
nextPeer(n, i, killed) ==
    IF killed THEN N
    ELSE IF \E j \in Nodes : j >= i /\ j # n
         THEN CHOOSE j \in Nodes : j >= i /\ j # n /\
                  \A j2 \in Nodes : (j2 >= i /\ j2 # n) => j <= j2
         ELSE N

One(e) == SetToBag({e})

\* --------------------------------------------------------------- Init
Init ==
    /\ F \in 0 .. MaxF
    /\ isFaulty = [n \in Nodes |-> n >= N - F]
    /\ initialValue \in [Nodes -> {0, 1}]
    /\ \A n \in Nodes : isFaulty[n] => initialValue[n] = 0
    /\ state = [n \in Nodes |->
                  [killed |-> FALSE,
                   x |-> IF isFaulty[n] THEN Null ELSE initialValue[n],
                   decided |-> IF isFaulty[n] THEN "null" ELSE "false",
                   k |-> IF isFaulty[n] THEN Null ELSE 1]]
    /\ inbox = [n \in Nodes |-> [t \in MsgTypes |-> <<>>]]
    /\ consensusRunning = [n \in Nodes |-> FALSE]
    /\ timers = [n \in Nodes |-> 0]
    /\ loops = [n \in Nodes |-> EmptyBag]
    /\ networkReady = FALSE
    /\ sent = [n \in Nodes |-> EmptyBag]
    /\ starts = [n \in Nodes |-> 0]
    /\ posted = 0
    /\ dropped = 0

\* ------------------------------------------------------------ sendToAll
\* sendToAll up to its first await: the loop record the caller suspends in.
\* phase is "R" or "P"; wait names the pc after the broadcast.
sendToAllEntry(n, phase, round, val) ==
    IF state[n].killed \/ isFaulty[n]
    THEN [pc |-> "wait", phase |-> phase, round |-> round, val |-> val, i |-> N]
    ELSE IF ~networkReady
    THEN [pc |-> "ready", phase |-> phase, round |-> round, val |-> val, i |-> 0]
    ELSE IF nextPeer(n, 0, FALSE) < N
    THEN [pc |-> "send", phase |-> phase, round |-> round, val |-> val,
          i |-> nextPeer(n, 0, FALSE)]
    ELSE [pc |-> "wait", phase |-> phase, round |-> round, val |-> val, i |-> N]

\* The network becomes ready (every listener is bound).
NodesAreReady ==
    /\ ~networkReady
    /\ networkReady' = TRUE
    /\ UNCHANGED <<config, state, inbox, consensusRunning, timers, loops, sent, starts, posted, dropped>>

\* The fetch a suspended sendToAll has just issued (none unless pc = "send").
issued(n, l) ==
    IF l.pc = "send"
    THEN sent[n] (+) One(<<l.phase, l.round, l.val, l.i>>)
    ELSE sent[n]

\* sendToAll resumed after the fetch to peer l.i settled: the next iteration.
sendToAllNext(n, l) ==
    IF nextPeer(n, l.i + 1, state[n].killed) < N
    THEN [l EXCEPT !.i = nextPeer(n, l.i + 1, state[n].killed)]
    ELSE [l EXCEPT !.pc = "wait", !.i = N]

\* sendToAll resumed from its 100 ms readiness sleep.
sendToAllReady(n, l) ==
    IF state[n].killed
    THEN [l EXCEPT !.pc = "wait", !.i = N]
    ELSE [l EXCEPT !.pc = "send", !.i = nextPeer(n, 0, FALSE)]

\* ------------------------------------------------------- consensusLoop
\* The decision rule applied in every round, round 1 included.
decide_AnyRound(st, box, round) ==
    LET c0 == box["P"][round]["0"]
        c1 == box["P"][round]["1"]
        st1 == IF c0 = c1 THEN [st EXCEPT !.x = round % 2] ELSE st
    IN  IF c0 > c1
        THEN [st |-> [st EXCEPT !.x = 0, !.decided = "true"], resched |-> FALSE]
        ELSE IF c1 > c0
        THEN [st |-> [st EXCEPT !.x = 1, !.decided = "true"], resched |-> FALSE]
        ELSE IF ~Truthy(st1.decided)
        THEN [st |-> [st1 EXCEPT !.k = round + 1], resched |-> TRUE]
        ELSE [st |-> st1, resched |-> FALSE]

\* Lines 93-113: the decision rule and the advance, applied to NodeState.
\* resched says whether setTimeout(consensusLoop, 50) is called.
decide(st, box, round) ==
    LET c0 == box["P"][round]["0"]
        c1 == box["P"][round]["1"]
        st1 == IF round >= 2 /\ c0 = c1 THEN [st EXCEPT !.x = round % 2] ELSE st
    IN  IF round >= 2 /\ c0 > c1
        THEN [st |-> [st EXCEPT !.x = 0, !.decided = "true"], resched |-> FALSE]
        ELSE IF round >= 2 /\ c1 > c0
        THEN [st |-> [st EXCEPT !.x = 1, !.decided = "true"], resched |-> FALSE]
        ELSE IF ~Truthy(st1.decided)
        THEN [st |-> [st1 EXCEPT !.k = round + 1], resched |-> TRUE]
        ELSE [st |-> st1, resched |-> FALSE]

\* The early returns of consensusLoop (lines 72-73).
loopReturnsAtEntry(n) ==
    \/ state[n].killed \/ isFaulty[n] \/ ~consensusRunning[n]
    \/ Truthy(state[n].decided) /\ ~exceedingFaultLimit

\* waitForMessages(round, msgType, N - F) returns: the tallies of 0 and 1
\* reach minCount, or its 20 ms are over.
waitReturns(n, l, timedOut) ==
    \/ count(inbox[n], l.phase, l.round, "0") + count(inbox[n], l.phase, l.round, "1") >= N - F
    \/ timedOut

\* The node never re-checks its flags after a wait.
abortAfterWait_Never(n) == FALSE

\* The check after each waitForMessages (lines 82 and 91).
abortAfterWait(n) == state[n].killed \/ ~consensusRunning[n]

\* consensusLoop entering its broadcast without the Phase-R self-tally.
LoopEntry_NoSelfTally(n) ==
    /\ timers[n] > 0
    /\ timers' = [timers EXCEPT ![n] = @ - 1]
    /\ IF loopReturnsAtEntry(n)
       THEN UNCHANGED <<inbox, loops, sent>>
       ELSE /\ state[n].k <= MaxRound
            /\ LET round == state[n].k
                   l == sendToAllEntry(n, "R", round, ToStr(state[n].x))
               IN  /\ inbox' = [inbox EXCEPT ![n] = prepareInbox(inbox[n], round)]
                   /\ loops' = [loops EXCEPT ![n] = @ (+) One(l)]
                   /\ sent' = [sent EXCEPT ![n] = issued(n, l)]
    /\ UNCHANGED <<config, state, consensusRunning, networkReady, starts, posted, dropped>>

\* A scheduled consensusLoop callback runs up to its first await:
\* prepareInbox, the Phase-R self-tally and the entry of sendToAll.
LoopEntry(n) ==
    /\ timers[n] > 0
    /\ timers' = [timers EXCEPT ![n] = @ - 1]
    /\ IF loopReturnsAtEntry(n)
       THEN UNCHANGED <<inbox, loops, sent>>
       ELSE /\ state[n].k <= MaxRound
            /\ LET round == state[n].k
                   b1 == prepareInbox(inbox[n], round)
                   b2 == IF state[n].x # Null
                         THEN increment(b1, "R", round, ToStr(state[n].x))
                         ELSE b1
                   l == sendToAllEntry(n, "R", round, ToStr(state[n].x))
               IN  /\ inbox' = [inbox EXCEPT ![n] = b2]
                   /\ loops' = [loops EXCEPT ![n] = @ (+) One(l)]
                   /\ sent' = [sent EXCEPT ![n] = issued(n, l)]
    /\ UNCHANGED <<config, state, consensusRunning, networkReady, starts, posted, dropped>>

\* The readiness poll of sendToAll wakes up.
ReadyPoll(n, l) ==
    /\ l \in BagToSet(loops[n])
    /\ l.pc = "ready"
    /\ state[n].killed \/ networkReady
    /\ LET l2 == sendToAllReady(n, l)
       IN  /\ loops' = [loops EXCEPT ![n] = (@ (-) One(l)) (+) One(l2)]
           /\ sent' = [sent EXCEPT ![n] = issued(n, l2)]
    /\ UNCHANGED <<config, state, inbox, consensusRunning, timers, networkReady, starts, posted, dropped>>

\* The fetch to peer l.i settles: the peer's /message handler has run, and
\* sendToAll goes on to its next iteration.
Send(n, l) ==
    /\ l \in BagToSet(loops[n])
    /\ l.pc = "send"
    /\ LET l2 == sendToAllNext(n, l)
       IN  /\ inbox' = [inbox EXCEPT ![l.i] = receive(l.i, @, l.phase, l.round, l.val)]
           /\ loops' = [loops EXCEPT ![n] = (@ (-) One(l)) (+) One(l2)]
           /\ sent' = [sent EXCEPT ![n] = issued(n, l2)]
    /\ UNCHANGED <<config, state, consensusRunning, timers, networkReady, starts, posted, dropped>>

\* waitForMessages(round, "R", N - F) returns (threshold met or 20 ms over);
\* the loop computes confirmVal, self-tallies it and enters sendToAll.
WaitRExit(n, l) ==
    /\ l \in BagToSet(loops[n])
    /\ l.pc = "wait" /\ l.phase = "R"
    /\ \E timedOut \in BOOLEAN : waitReturns(n, l, timedOut)
    /\ IF abortAfterWait(n)
       THEN /\ loops' = [loops EXCEPT ![n] = @ (-) One(l)]
            /\ UNCHANGED <<inbox, sent>>
       ELSE LET cv == confirmVal(inbox[n], l.round)
                l2 == sendToAllEntry(n, "P", l.round, cv)
            IN  /\ inbox' = [inbox EXCEPT ![n] = increment(@, "P", l.round, cv)]
                /\ loops' = [loops EXCEPT ![n] = (@ (-) One(l)) (+) One(l2)]
                /\ sent' = [sent EXCEPT ![n] = issued(n, l2)]
    /\ UNCHANGED <<config, state, consensusRunning, timers, networkReady, starts, posted, dropped>>

\* waitForMessages(round, "P", N - F) returns; the decision rule runs.
WaitPExit(n, l) ==
    /\ l \in BagToSet(loops[n])
    /\ l.pc = "wait" /\ l.phase = "P"
    /\ \E timedOut \in BOOLEAN : waitReturns(n, l, timedOut)
    /\ loops' = [loops EXCEPT ![n] = @ (-) One(l)]
    /\ IF abortAfterWait(n)
       THEN UNCHANGED <<state, timers>>
       ELSE LET d == decide(state[n], inbox[n], l.round)
            IN  /\ state' = [state EXCEPT ![n] = d.st]
                /\ timers' = [timers EXCEPT ![n] = IF d.resched THEN @ + 1 ELSE @]
    /\ UNCHANGED <<config, inbox, consensusRunning, networkReady, sent, starts, posted, dropped>>

\* ------------------------------------------------------ control surface
\* /start refuses a killed node only.
startRejected_KilledOnly(n) == state[n].killed

\* The guard of the /start handler (line 132).
startRejected(n) == isFaulty[n] \/ state[n].killed

\* GET /start: the handler.
StartReq(n) ==
    /\ IF startRejected(n)
       THEN UNCHANGED <<consensusRunning, timers, starts>>
       ELSE /\ starts' = [starts EXCEPT ![n] = @ + 1]
            /\ consensusRunning' = [consensusRunning EXCEPT ![n] = TRUE]
            /\ timers' = [timers EXCEPT ![n] =
                             IF ~Truthy(state[n].decided) THEN @ + 1 ELSE @]
    /\ UNCHANGED <<config, state, inbox, loops, networkReady, sent, posted, dropped>>

TotalStarts ==
    Cardinality({p \in Nodes \X (1 .. (MaxStarts + N)) : p[2] <= starts[p[1]]})

\* GET /start, any number of times per node.
Start(n) ==
    /\ startRejected(n) \/ TotalStarts < MaxStarts
    /\ StartReq(n)

\* GET /stop
Stop(n) ==
    /\ state[n].killed \/ Cardinality({m \in Nodes : state[m].killed}) < MaxStops
    /\ consensusRunning' = [consensusRunning EXCEPT ![n] = FALSE]
    /\ state' = [state EXCEPT ![n].killed = TRUE]
    /\ UNCHANGED <<config, inbox, timers, loops, networkReady, sent, starts, posted, dropped>>

\* state.k || 0
kOrZero(k) == IF k = Null THEN 0 ELSE k

Max(a, b) == IF a >= b THEN a ELSE b

\* /getState without the branch for exceedingFaultLimit.
getStateResp_NoSentinel(n) ==
    IF isFaulty[n]
    THEN [killed |-> state[n].killed, x |-> Null, decided |-> "null", k |-> Null]
    ELSE state[n]

\* The body of the GET /getState response.
getStateResp(n) ==
    IF isFaulty[n]
    THEN [killed |-> state[n].killed, x |-> Null, decided |-> "null", k |-> Null]
    ELSE IF exceedingFaultLimit
    THEN [killed |-> state[n].killed, x |-> state[n].x, decided |-> "false",
          k |-> Max(kOrZero(state[n].k), 11)]
    ELSE state[n]

\* The GET /status response.
statusResp(n) ==
    IF isFaulty[n] THEN [code |-> 500, body |-> "faulty"]
    ELSE [code |-> 200, body |-> "live"]

\* The GET /start response.
startResp(n) ==
    IF startRejected(n) THEN [code |-> 500, body |-> "Node is faulty or killed"]
    ELSE [code |-> 200, body |-> "Consensus started"]

\* GET /getState and GET /status read the node and change nothing.
GetState(n) ==
    /\ getStateResp(n) \in [killed : BOOLEAN, x : {0, 1, Null},
                            decided : {"true", "false", "null"}, k : Int]
    /\ UNCHANGED vars

Status(n) ==
    /\ statusResp(n).code \in {200, 500}
    /\ UNCHANGED vars

LoopSet == UNION {BagToSet(loops[n]) : n \in Nodes}

\* The cohort under any use of its control surface.
Next ==
    \/ NodesAreReady
    \/ \E n \in Nodes : LoopEntry(n)
    \/ \E n \in Nodes : \E l \in LoopSet : ReadyPoll(n, l)
    \/ \E n \in Nodes : \E l \in LoopSet : Send(n, l)
    \/ \E n \in Nodes : \E l \in LoopSet : WaitRExit(n, l)
    \/ \E n \in Nodes : \E l \in LoopSet : WaitPExit(n, l)
    \/ \E n \in Nodes : Start(n)
    \/ \E n \in Nodes : Stop(n)
    \/ \E n \in Nodes : GetState(n)
    \/ \E n \in Nodes : Status(n)

Spec == Init /\ [][Next]_vars

\* GET /start, at most once per node.
StartOnce(n) ==
    /\ starts[n] = 0
    /\ StartReq(n)

\* The launcher's run: every node is started once and none is stopped.
NextCohort ==
    \/ NodesAreReady
    \/ \E n \in Nodes : LoopEntry(n)
    \/ \E n \in Nodes : \E l \in LoopSet : ReadyPoll(n, l)
    \/ \E n \in Nodes : \E l \in LoopSet : Send(n, l)
    \/ \E n \in Nodes : \E l \in LoopSet : WaitRExit(n, l)
    \/ \E n \in Nodes : \E l \in LoopSet : WaitPExit(n, l)
    \/ \E n \in Nodes : StartOnce(n)

SpecCohort == Init /\ [][NextCohort]_vars

\* One step of the engine of node n.
EngineStep(n) ==
    \/ LoopEntry(n)
    \/ \E l \in LoopSet : ReadyPoll(n, l)
    \/ \E l \in LoopSet : Send(n, l)
    \/ \E l \in LoopSet : WaitRExit(n, l)
    \/ \E l \in LoopSet : WaitPExit(n, l)

\* The launcher's run under fair scheduling: the listeners come up, every
\* node is started, every timer fires, every fetch settles and every wait
\* returns.
FairSpec ==
    /\ SpecCohort
    /\ WF_vars(NodesAreReady)
    /\ \A n \in Nodes : WF_vars(StartOnce(n))
    /\ \A n \in Nodes : WF_vars(EngineStep(n))

\* ------------------------------------------------------ lossy transport
\* The fetch to peer l.i rejects: the catch at line 66 swallows the error,
\* the peer's handler has not run, and sendToAll goes on.
SendFails(n, l) ==
    /\ l \in BagToSet(loops[n])
    /\ l.pc = "send"
    /\ dropped < MaxDrops
    /\ dropped' = dropped + 1
    /\ LET l2 == sendToAllNext(n, l)
       IN  /\ loops' = [loops EXCEPT ![n] = (@ (-) One(l)) (+) One(l2)]
           /\ sent' = [sent EXCEPT ![n] = issued(n, l2)]
    /\ UNCHANGED <<config, state, inbox, consensusRunning, timers, networkReady,
                   starts, posted>>

\* GET /start, at most once per node, for at most MaxLossyStarts nodes.
StartLossy(n) ==
    /\ starts[n] = 0
    /\ startRejected(n) \/ TotalStarts < MaxLossyStarts
    /\ StartReq(n)

\* The launcher's run over a transport that delivers each message at most
\* once.
NextLossy ==
    \/ NodesAreReady
    \/ \E n \in Nodes : LoopEntry(n)
    \/ \E n \in Nodes : \E l \in LoopSet : ReadyPoll(n, l)
    \/ \E n \in Nodes : \E l \in LoopSet : Send(n, l)
    \/ \E n \in Nodes : \E l \in LoopSet : SendFails(n, l)
    \/ \E n \in Nodes : \E l \in LoopSet : WaitRExit(n, l)
    \/ \E n \in Nodes : \E l \in LoopSet : WaitPExit(n, l)
    \/ \E n \in Nodes : StartLossy(n)

SpecLossy == Init /\ [][NextLossy]_vars

\* --------------------------------------------------- clients of /message
\* Request bodies a client may POST: every field present or absent, the
\* types and values of MsgPayload and some outside it.
PostTypes == MsgTypes \cup {"X", ""}

PostRounds == 1 .. MaxRound

PostVals == Keys \cup {"2"}

Payloads ==
    {[f \in D |-> m[f]] :
        m \in [type : PostTypes, round : PostRounds, val : PostVals],
        D \in SUBSET PayloadFields}

\* POST /message with body msg from any client.
Message(n, msg) ==
    /\ posted < MaxPosts
    /\ posted' = posted + 1
    /\ inbox' = [inbox EXCEPT ![n] = messageEffect(n, @, msg)]
    /\ messageResp(n, msg).code \in {200, 400, 500}
    /\ UNCHANGED <<config, state, consensusRunning, timers, loops, networkReady,
                   sent, starts, dropped>>

\* GET /start while the cohort has accepted fewer than MaxIngressStarts.
StartIngress(n) ==
    /\ startRejected(n) \/ TotalStarts < MaxIngressStarts
    /\ StartReq(n)

\* The cohort with clients posting to /message.
NextIngress ==
    \/ NodesAreReady
    \/ \E n \in Nodes : LoopEntry(n)
    \/ \E n \in Nodes : \E l \in LoopSet : ReadyPoll(n, l)
    \/ \E n \in Nodes : \E l \in LoopSet : Send(n, l)
    \/ \E n \in Nodes : \E l \in LoopSet : WaitRExit(n, l)
    \/ \E n \in Nodes : \E l \in LoopSet : WaitPExit(n, l)
    \/ \E n \in Nodes : StartIngress(n)
    \/ \E n \in Nodes : Stop(n)
    \/ \E n \in Nodes : \E msg \in Payloads : Message(n, msg)

SpecIngress == Init /\ [][NextIngress]_vars

\* ------------------------------------------------------------- claims
Live == {n \in Nodes : ~isFaulty[n]}

\* The safe regime in the words of the specification: F <= floor((N-1)/2).
SafeFaultCount == F <= (N - 1) \div 2

Decided(n) == state[n].decided = "true"

\* C1 (Agreement): with F <= floor((N-1)/2) and the faulty nodes silent, no
\* two non-faulty nodes have decided = true with different values of x, also
\* when phase waits time out and the engine proceeds on a partial tally.
C1_Agreement ==
    SafeFaultCount =>
        \A n, m \in Live :
            (Decided(n) /\ Decided(m)) => state[n].x = state[m].x

\* C2 (Validity): with F <= floor((N-1)/2), if every non-faulty node starts
\* with the same value v, a non-faulty node that has decided has x = v.
C2_Validity ==
    SafeFaultCount =>
        \A v \in {0, 1} :
            (\A n \in Live : initialValue[n] = v) =>
                \A n \in Live : Decided(n) => state[n].x = v

C4_DecisionLatched ==
    [][\A n \in Live :
          (SafeFaultCount /\ Decided(n)) =>
              /\ state'[n].x = state[n].x
              /\ getStateResp(n)'.x = getStateResp(n).x]_vars

\* C5 (Monotonicity of k): the k of a non-faulty node never decreases
\* across start, stop, message and engine steps.
C5_MonotonicK ==
    [][\A n \in Live : state'[n].k >= state[n].k]_vars

\* C6 (Faulty inertness): a node created with isFaulty = true keeps x,
\* decided and k null and its inbox empty, never sends, answers 500
\* "faulty" to status and 500 to start, and getState reports nulls.
C6_FaultyInert ==
    \A n \in Nodes :
        isFaulty[n] =>
            /\ state[n].x = Null /\ state[n].decided = "null" /\ state[n].k = Null
            /\ inbox[n] = [t \in MsgTypes |-> <<>>]
            /\ sent[n] = EmptyBag
            /\ statusResp(n) = [code |-> 500, body |-> "faulty"]
            /\ startResp(n).code = 500
            /\ getStateResp(n).x = Null
            /\ getStateResp(n).decided = "null"
            /\ getStateResp(n).k = Null

\* A faulty node that was stopped and to which a peer has sent a message.
C6_Witness ==
    \E n \in Nodes :
        /\ isFaulty[n]
        /\ state[n].killed
        /\ \E m \in Nodes : \E e \in BagToSet(sent[m]) : e[4] = n

\* C7 (Stop is final): once killed is true it stays true and x, decided and
\* k never change, whatever suspension point the round was at; a later
\* start is answered 500 and does not re-arm the engine.
C7_StopFinal ==
    [][\A n \in Nodes :
          state[n].killed =>
              /\ state'[n] = state[n]
              /\ startResp(n).code = 500
              /\ ~consensusRunning'[n]
              /\ timers'[n] <= timers[n]]_vars

\* A stopped node whose round r >= 2 had reached Phase-P with tallies that
\* decide, and whose loop has returned without deciding or advancing.
C7_Witness ==
    \E n \in Live :
        /\ state[n].killed
        /\ state[n].decided = "false"
        /\ loops[n] = EmptyBag
        /\ state[n].k >= 2
        /\ \E e \in BagToSet(sent[n]) : e[1] = "P" /\ e[2] = state[n].k
        /\ inbox[n]["P"][state[n].k]["0"] # inbox[n]["P"][state[n].k]["1"]

\* C8 (Threshold): exceedingFaultLimit is true exactly when
\* F > floor((N-1)/2), in each source file that computes it.
C8_Threshold ==
    /\ exceedingFaultLimit = (F > (N - 1) \div 2)
    /\ exceedingFaultLimitNodeTs = (F > (N - 1) \div 2)

\* C9 (Liveness failure surfacing): for a non-faulty node with
\* F > floor((N-1)/2), getState reports decided = false and
\* k = max(stored k, 11) >= 11, with x and killed as stored.
C9_GetStateExceeding ==
    \A n \in Live :
        F > (N - 1) \div 2 =>
            /\ getStateResp(n) =
                   [killed |-> state[n].killed, x |-> state[n].x,
                    decided |-> "false", k |-> Max(state[n].k, 11)]
            /\ getStateResp(n).k >= 11

\* A node beyond the fault limit whose engine has set decided = true.
C9_Witness ==
    \E n \in Live : F > (N - 1) \div 2 /\ Decided(n)

\* C10 (No exit beyond the fault limit): when exceedingFaultLimit is true,
\* the invocation of an armed, non-killed engine whose decision rule yields
\* 0 or 1 schedules the next round instead of exiting.
C10_ContinuesWhenExceeding ==
    [][\A n \in Live :
          (exceedingFaultLimit /\ ~Decided(n) /\ state'[n].decided = "true") =>
              timers'[n] = timers[n] + 1]_vars

\* A body the specification calls malformed: type, round or val missing,
\* a type other than "R" and "P", or a val other than 0, 1 and "?".
Malformed(msg) ==
    \/ "type" \notin DOMAIN msg \/ "round" \notin DOMAIN msg \/ "val" \notin DOMAIN msg
    \/ msg.type \notin {"R", "P"}
    \/ msg.val \notin {"0", "1", "?"}

\* C11 (Malformed ingress): a malformed message posted to a live,
\* non-faulty node is answered with a 4xx status and leaves the inbox (no
\* round tally created, no counter changed) and the NodeState unchanged.
C11_MalformedRejected ==
    [][\A n \in Live : \A msg \in Payloads :
          (~state[n].killed /\ Malformed(msg) /\ Message(n, msg)) =>
              /\ messageResp(n, msg).code \in 400 .. 499
              /\ inbox'[n] = inbox[n]
              /\ state'[n] = state[n]]_vars

\* C12 (Broadcast guard): a node issues a send only while it is not killed,
\* not faulty and the network is ready; a broadcast begun before readiness
\* stays blocked until the network is ready or the node is killed, and a
\* killed node issues no send to a further peer.
C12_BroadcastGuard ==
    [][\A n \in Nodes :
          /\ sent'[n] # sent[n] =>
                 /\ ~state'[n].killed /\ ~isFaulty[n] /\ networkReady
                 /\ \E e \in BagToSet(sent'[n]) :
                        /\ sent'[n] = sent[n] (+) One(e)
                        /\ e[4] \in Nodes \ {n}
          /\ \A l \in BagToSet(loops[n]) :
                 (l.pc = "ready" /\ ~networkReady /\ ~state[n].killed) =>
                     CopiesIn(l, loops'[n]) >= CopiesIn(l, loops[n])]_vars

\* A node stopped during a broadcast: its Phase-R message of round 1 went
\* to its first peer only, and its engine has returned.
C12_Witness ==
    \E n \in Live : \E v \in Keys :
        /\ state[n].killed
        /\ loops[n] = EmptyBag
        /\ CopiesIn(<<"R", 1, v, nextPeer(n, 0, FALSE)>>, sent[n]) = 1
        /\ BagCardinality(sent[n]) = 1

\* The bodies the handler accepts as well-formed messages of the protocol.
WellFormed == [type : MsgTypes, round : PostRounds, val : Keys]

\* inbox with the tallies of round created (zeros) where absent.
Prepared(box, round) ==
    [t \in MsgTypes |->
        [r \in (DOMAIN box[t]) \cup {round} |->
            IF r \in DOMAIN box[t] THEN box[t][r] ELSE ZeroTally]]

\* C13 (Effect of an accepted message): on a live non-faulty node an
\* accepted message {type, round, val} raises inbox[type][round][val] by
\* exactly 1, creating the round's R and P tallies with zeros first if
\* absent, changes no other counter and leaves x, decided, k and killed
\* unchanged; the same message delivered twice raises the counter by 2. On
\* a killed node the message is answered 2xx and changes nothing. A peer's
\* fetch has the same effect as a client's POST.
C13_MessageEffect ==
    [][/\ posted' # posted =>
             \A n \in Nodes :
                (\A m \in Nodes \ {n} : inbox'[m] = inbox[m]) =>
                    \A msg \in WellFormed :
                        (~isFaulty[n] /\ Message(n, msg)) =>
                            IF state[n].killed
                            THEN /\ messageResp(n, msg).code \in 200 .. 299
                                 /\ inbox' = inbox /\ state' = state
                            ELSE /\ messageResp(n, msg).code = 200
                                 /\ inbox'[n] =
                                        [Prepared(inbox[n], msg.round) EXCEPT
                                            ![msg.type][msg.round][msg.val] = @ + 1]
                                 /\ messageEffect(n, inbox'[n], msg)
                                        [msg.type][msg.round][msg.val]
                                      = count(inbox[n], msg.type, msg.round, msg.val) + 2
                                 /\ state' = state
       /\ posted' = posted =>
             \A s \in Nodes : \A l \in BagToSet(loops[s]) :
                (l.pc = "send" /\ Send(s, l)) =>
                    /\ inbox'[l.i] = messageEffect(l.i, inbox[l.i],
                           [type |-> l.phase, round |-> l.round, val |-> l.val])
                    /\ \A m \in Nodes \ {l.i} : inbox'[m] = inbox[m]
                    /\ state' = state]_vars

\* A client's message for a round ahead of the node's k has been counted
\* on a node whose engine has tallied its own vote in round 1.
C13_Witness ==
    /\ posted = 1
    /\ \E n \in Live : \E r \in PostRounds :
           /\ ~state[n].killed
           /\ r > state[n].k
           /\ \E key \in Keys : count(inbox[n], "R", r, key) = 1
           /\ count(inbox[n], "R", 1, "0") + count(inbox[n], "R", 1, "1") >= 1

\* C14 (Round 1 never decides): a node with decided = true has k >= 2, and
\* no step taken while the node is in round 1, the end of the round-1
\* Phase-P wait included, changes x or decided, whatever the round-1 P
\* tallies are.
C14_RoundOneNeverDecides ==
    [][\A n \in Live :
          /\ Decided(n)' => state'[n].k >= 2
          /\ state[n].k = 1 =>
                 state'[n].x = state[n].x /\ state'[n].decided = state[n].decided
          /\ \A l \in BagToSet(loops[n]) :
                 (l.round = 1 /\ l.pc = "wait" /\ l.phase = "P" /\ WaitPExit(n, l)) =>
                     /\ state'[n].x = state[n].x
                     /\ state'[n].decided = state[n].decided]_vars

\* A node that ended round 1 with a strict majority in its round-1 P
\* tallies (its own confirm value 1, after a client's R message) and went
\* on to round 2 undecided.
C14_Witness ==
    \E n \in Live :
        /\ posted = 1
        /\ state[n].k = 2 /\ state[n].decided = "false"
        /\ count(inbox[n], "R", 1, "1") = 2
        /\ count(inbox[n], "P", 1, "1") = 1
        /\ count(inbox[n], "P", 1, "0") = 0
        /\ CopiesIn(<<"P", 1, "1", nextPeer(n, 0, FALSE)>>, sent[n]) = 1

\* C15 (Decision rule): when an armed, non-killed engine ends round
\* r >= 2 with c0 = inbox.P[r][0] and c1 = inbox.P[r][1], then c0 > c1 gives
\* x = 0 and decided = true, c1 > c0 gives x = 1 and decided = true, both with
\* k unchanged, and c0 = c1 gives x = r mod 2, decided = false and
\* k = r + 1; the count of "?" plays no part.
C15_DecisionRule ==
    [][\A n \in Live : \A l \in BagToSet(loops[n]) :
          (l.pc = "wait" /\ l.phase = "P" /\ l.round >= 2 /\ WaitPExit(n, l)
             /\ ~state[n].killed /\ consensusRunning[n]) =>
              LET c0 == inbox[n]["P"][l.round]["0"]
                  c1 == inbox[n]["P"][l.round]["1"]
              IN  /\ c0 > c1 =>
                         state'[n] = [state[n] EXCEPT !.x = 0, !.decided = "true"]
                  /\ c1 > c0 =>
                         state'[n] = [state[n] EXCEPT !.x = 1, !.decided = "true"]
                  /\ c0 = c1 =>
                         /\ state'[n].x = l.round % 2
                         /\ state'[n].decided = "false"
                         /\ state'[n].k = l.round + 1]_vars

\* C16 (Confirm value rule): when the Phase-R wait of round r ends on an
\* armed, non-killed node (threshold reached or timeout), the node tallies
\* for itself in inbox.P[r], and broadcasts, the value 0 if
\* inbox.R[r][0] > floor(N/2), else 1 if inbox.R[r][1] > floor(N/2), else "?";
\* the value tallied and the value sent are the same.
C16_ConfirmRule ==
    [][\A n \in Live : \A l \in BagToSet(loops[n]) :
          (l.pc = "wait" /\ l.phase = "R" /\ WaitRExit(n, l)
             /\ ~state[n].killed /\ consensusRunning[n]) =>
              LET r == l.round
                  cv == IF inbox[n]["R"][r]["0"] > N \div 2 THEN "0"
                        ELSE IF inbox[n]["R"][r]["1"] > N \div 2 THEN "1"
                        ELSE "?"
              IN  /\ inbox'[n] = [inbox[n] EXCEPT !["P"][r][cv] = @ + 1]
                  /\ \E l2 \in BagToSet(loops'[n]) :
                         /\ l2.phase = "P" /\ l2.round = r /\ l2.val = cv
                         /\ CopiesIn(l2, loops'[n]) = CopiesIn(l2, loops[n]) + 1
                  /\ \A e \in BagToSet(sent'[n]) :
                         CopiesIn(e, sent'[n]) > CopiesIn(e, sent[n]) =>
                             e[1] = "P" /\ e[2] = r /\ e[3] = cv]_vars

\* A node that has broadcast the confirm value 1 in a round whose Phase-R
\* wait ended before every live node's vote had arrived, and another that
\* has broadcast "?".
C16_Witness ==
    \E n, m \in Live : \E r \in 1 .. MaxRound :
        /\ \E p \in Nodes : CopiesIn(<<"P", r, "1", p>>, sent[n]) >= 1
        /\ count(inbox[n], "P", r, "1") >= 1
        /\ count(inbox[n], "R", r, "0") + count(inbox[n], "R", r, "1") < N - F
        /\ \E p \in Nodes : CopiesIn(<<"P", r, "?", p>>, sent[m]) >= 1

C18_SelfTallyFirst ==
    \A n \in Nodes :
        /\ \A e \in BagToSet(sent[n]) : count(inbox[n], e[1], e[2], e[3]) >= 1
        /\ \A l \in BagToSet(loops[n]) : count(inbox[n], l.phase, l.round, l.val) >= 1

\* Both fetches of a node's round-1 Phase-R broadcast failed: no peer has
\* received anything, and the node's own tally holds its vote.
C18_Witness ==
    /\ F = 0
    /\ dropped = 2
    /\ \E n \in Nodes : \E v \in Keys :
           /\ \A m \in Nodes \ {n} :
                  /\ CopiesIn(<<"R", 1, v, m>>, sent[n]) = 1
                  /\ inbox[m] = [t \in MsgTypes |-> <<>>]
           /\ count(inbox[n], "R", 1, v) = 1

\* C19 (Unique confirm value per round): with each node started at most
\* once and each sent message delivered at most once, in no round do two
\* nodes broadcast Phase-P messages carrying different values of {0,1}, at
\* most one of 0 and 1 exceeds floor(N/2) in the round's Phase-R tallies
\* across all nodes, and no node's inbox.P[k][0] and inbox.P[k][1] are both
\* positive.
C19_UniqueConfirm ==
    \A r \in 1 .. MaxRound :
        /\ ~ \E n, m \in Nodes : \E p, q \in Nodes :
               /\ CopiesIn(<<"P", r, "0", p>>, sent[n]) > 0
               /\ CopiesIn(<<"P", r, "1", q>>, sent[m]) > 0
        /\ ~ \E n, m \in Nodes :
               /\ count(inbox[n], "R", r, "0") > N \div 2
               /\ count(inbox[m], "R", r, "1") > N \div 2
        /\ \A n \in Nodes :
               ~ (count(inbox[n], "P", r, "0") > 0 /\ count(inbox[n], "P", r, "1") > 0)

\* A round in which the live nodes' votes were split, one node broadcast
\* the confirm value 1 and a peer that had voted 0 received it.
C19_Witness ==
    \E r \in 1 .. MaxRound : \E n, m \in Live :
        /\ n # m
        /\ CopiesIn(<<"P", r, "1", m>>, sent[n]) = 1
        /\ \E p \in Nodes : CopiesIn(<<"R", r, "0", p>>, sent[m]) = 1
        /\ count(inbox[m], "P", r, "1") >= 1

\* C20 (Single engine instance): at most one consensus round is in
\* progress per node, however often start is invoked; so a node sends at
\* most one R and one P message per round to each peer.
C20_SingleEngine ==
    \A n \in Nodes :
        /\ BagCardinality(loops[n]) <= 1
        /\ \A e, e2 \in BagToSet(sent[n]) :
               (e[1] = e2[1] /\ e[2] = e2[2] /\ e[4] = e2[4]) =>
                   e = e2 /\ CopiesIn(e, sent[n]) = 1
====
